---- MODULE Spec2Model ----
(***************************************************************************)
(* Model of organize_images_by_date.py: organize_images(source_dir) walks  *)
(* a directory tree and copies every image file into                       *)
(* <parent-of-source>/organized/<YYYY-MM> or .../organized/unknown_date.   *)
(*                                                                         *)
(* File names, directory names and bucket names are sequences of           *)
(* one-character strings, a path is a sequence of such names (the empty    *)
(* path is the filesystem root).  A modification time is counted in months *)
(* of local time since 1970-01.                                            *)
(***************************************************************************)
EXTENDS Integers, Sequences, FiniteSets, TLC

VARIABLES
    pc,                 \* "start", "walk", "returned", "raised"
    result,             \* return value of organize_images: "none", "True", "False"
    source_dir,         \* the argument of organize_images
    dirs,               \* the directories of the filesystem (set of paths)
    files,              \* the files of the filesystem: path -> [content, mtime, kind]
    stack,              \* os.walk: directories still to visit, a sequence of sets
    root,               \* os.walk: the directory being listed
    pending,            \* os.walk: names of `files` of root not yet iterated
    processed_files,    \* filename -> bucket
    year_month_counts,  \* the summary: bucket -> count
    total,              \* the summary: len(processed_files), -1 before the summary
    run,                \* which call of organize_images this is
    faults,             \* I/O failures the environment has injected so far
    exc,                \* the line whose exception left organize_images, "none" if none
    unlisted,           \* history: directories os.walk could not list and skipped
    orig,               \* history: files and dirs when the current run started
    last,               \* history: filename -> content of the file of that name copied last
    log,                \* history: the copies this run made
    prev                \* history: the paths, directories and buckets the first run left

vars == <<pc, result, source_dir, dirs, files, stack, root, pending,
          processed_files, year_month_counts, total, run, faults, exc, unlisted,
          orig, last, log, prev>>

-----------------------------------------------------------------------------
(* Bounds *)

MaxFiles == 2
MaxFaults == 1

-----------------------------------------------------------------------------
(* Names *)

ORGANIZED == <<"o","r","g","a","n","i","z","e","d">>
UNKNOWN_DATE == <<"u","n","k","n","o","w","n","_","d","a","t","e">>
PARENT == <<"p">>
IMAGES == <<"i","m","a","g","e","s">>
SUB == <<"s","u","b">>

\* 20240101_IMG-20230515-.jpg : matches both date patterns
NameBoth == <<"2","0","2","4","0","1","0","1","_","I","M","G","-","2","0","2","3","0","5","1","5","-",".","j","p","g">>
\* xIMG-20230515-IMG-20221103-.PNG : two IMG- segments, upper-case extension
NameImg == <<"x","I","M","G","-","2","0","2","3","0","5","1","5","-","I","M","G","-","2","0","2","2","1","1","0","3","-",".","P","N","G">>
\* a.JpEg : no date in the name
NamePlain == <<"a",".","J","p","E","g">>
\* IMG-20230515-.jpg.txt : not an image
NameText == <<"I","M","G","-","2","0","2","3","0","5","1","5","-",".","j","p","g",".","t","x","t">>

-----------------------------------------------------------------------------
(* str.lower, str.endswith, the extension test *)

UpperLetters == <<"A","B","C","D","E","F","G","H","I","J","K","L","M","N","O","P","Q","R","S","T","U","V","W","X","Y","Z">>
LowerLetters == <<"a","b","c","d","e","f","g","h","i","j","k","l","m","n","o","p","q","r","s","t","u","v","w","x","y","z">>

LowerChar(c) ==
    IF \E i \in 1..Len(UpperLetters) : UpperLetters[i] = c
    THEN LowerLetters[CHOOSE i \in 1..Len(UpperLetters) : UpperLetters[i] = c]
    ELSE c

lower(s) == [i \in 1..Len(s) |-> LowerChar(s[i])]

endswith(s, suffix) ==
    /\ Len(s) >= Len(suffix)
    /\ SubSeq(s, Len(s) - Len(suffix) + 1, Len(s)) = suffix

image_extensions ==
    << <<".","j","p","g">>,
       <<".","j","p","e","g">>,
       <<".","p","n","g">>,
       <<".","g","i","f">>,
       <<".","b","m","p">>,
       <<".","t","i","f","f">>,
       <<".","w","e","b","p">> >>

\* the extension compared without lower()
IsImageCaseSensitive(filename) ==
    \E k \in 1..Len(image_extensions) : endswith(filename, image_extensions[k])

IsImage(filename) ==
    \E k \in 1..Len(image_extensions) : endswith(lower(filename), image_extensions[k])

-----------------------------------------------------------------------------
(* The date patterns and re.search *)

IsDigit(c) == c \in {"0","1","2","3","4","5","6","7","8","9"}

\* A pattern is: optional anchor at the start, a literal, eight digits in
\* three groups (4, 2, 2), a closing literal character.
date_patterns ==
    << [anchored |-> TRUE,  literal |-> << >>,               closing |-> "_"],
       [anchored |-> FALSE, literal |-> <<"I","M","G","-">>, closing |-> "-"] >>

MatchAt(pattern, s, i) ==
    LET d == i + Len(pattern.literal)
    IN  /\ d + 8 <= Len(s)
        /\ SubSeq(s, i, d - 1) = pattern.literal
        /\ \A j \in d..(d + 7) : IsDigit(s[j])
        /\ s[d + 8] = pattern.closing

\* the rightmost match instead of the leftmost
re_search_rightmost(pattern, s) ==
    LET starts == IF pattern.anchored THEN {1} ELSE 1..Len(s)
        hits == {i \in starts : MatchAt(pattern, s, i)}
    IN  IF hits = {} THEN 0 ELSE CHOOSE i \in hits : \A j \in hits : i >= j

\* re.search: the position of the leftmost match, 0 for no match
re_search(pattern, s) ==
    LET starts == IF pattern.anchored THEN {1} ELSE 1..Len(s)
        hits == {i \in starts : MatchAt(pattern, s, i)}
    IN  IF hits = {} THEN 0 ELSE CHOOSE i \in hits : \A j \in hits : i <= j

\* match.groups(): year and month of the match that starts at i
groups(pattern, s, i) ==
    LET d == i + Len(pattern.literal)
    IN  [year |-> SubSeq(s, d, d + 3), month |-> SubSeq(s, d + 4, d + 5)]

YearMonth(year, month) == year \o <<"-">> \o month

\* the loop without its break: the last pattern that matches wins
LastPattern(filename) ==
    LET hits == {k \in 1..Len(date_patterns) : re_search(date_patterns[k], filename) # 0}
    IN  IF hits = {} THEN 0 ELSE CHOOSE k \in hits : \A j \in hits : k >= j

\* for pattern in date_patterns: ... break : index of the first pattern that
\* matches, 0 when none does
FirstPattern(filename) ==
    LET hits == {k \in 1..Len(date_patterns) : re_search(date_patterns[k], filename) # 0}
    IN  IF hits = {} THEN 0 ELSE CHOOSE k \in hits : \A j \in hits : k <= j

PatternBucket(k, filename) ==
    LET g == groups(date_patterns[k], filename, re_search(date_patterns[k], filename))
    IN  YearMonth(g.year, g.month)

-----------------------------------------------------------------------------
(* datetime.fromtimestamp and strftime *)

EPOCH_YEAR == 1970
MAXYEAR == 9999

Digits == <<"0","1","2","3","4","5","6","7","8","9">>
Digit(n) == Digits[n + 1]

TimestampYear(mtime) == EPOCH_YEAR + (mtime \div 12)
TimestampMonth(mtime) == (mtime % 12) + 1

\* datetime.fromtimestamp raises for a year past datetime.MAXYEAR
FromTimestampRaises(mtime) == TimestampYear(mtime) > MAXYEAR

strftime_Y(mtime) ==
    LET y == TimestampYear(mtime)
    IN  <<Digit(y \div 1000), Digit((y \div 100) % 10), Digit((y \div 10) % 10), Digit(y % 10)>>

strftime_m(mtime) ==
    LET m == TimestampMonth(mtime)
    IN  <<Digit(m \div 10), Digit(m % 10)>>

MtimeBucket(mtime) == YearMonth(strftime_Y(mtime), strftime_m(mtime))

-----------------------------------------------------------------------------
(* Paths and the filesystem *)

dirname(path) == IF Len(path) = 0 THEN path ELSE SubSeq(path, 1, Len(path) - 1)
basename(path) == path[Len(path)]
join(path, name) == Append(path, name)

IsPrefix(p, q) == Len(p) <= Len(q) /\ SubSeq(q, 1, Len(p)) = p
Prefixes(p) == {SubSeq(p, 1, n) : n \in 0..Len(p)}

isdir(path) == path \in dirs
isfile(path) == path \in DOMAIN files /\ files[path].kind = "regular"

\* parent_dir, target_dir, unknown_date_dir of organize_images
parent_dir == dirname(source_dir)
target_dir == join(parent_dir, ORGANIZED)
unknown_date_dir == join(target_dir, UNKNOWN_DATE)

\* os.makedirs(d, exist_ok=True) raises when a file is in the way
MakedirsRaises(d) == \E q \in Prefixes(d) : q \in DOMAIN files
Makedirs(ds, d) == ds \cup Prefixes(d)

\* shutil.copy2(src, dst) raises SameFileError when both are the same file
SameFile(src, dst) == src = dst

\* a completed copy2: content and modification time of src written to dst
Copied(fs, src, dst) ==
    [p \in (DOMAIN fs) \cup {dst} |-> IF p = dst THEN fs[src] ELSE fs[p]]

NowMtime == (2026 - EPOCH_YEAR) * 12 + 10

\* a copy2 that fails while writing: dst is left truncated, stamped now
Truncated(fs, src, dst) ==
    [p \in (DOMAIN fs) \cup {dst} |->
        IF p = dst
        THEN [content |-> [origin |-> fs[src].content.origin, whole |-> FALSE],
              mtime |-> NowMtime, kind |-> "regular"]
        ELSE fs[p]]

EmptyMap == [x \in {} |-> x]
\* a map that keeps the first value of a key
PutIfAbsent(f, k, v) == [x \in (DOMAIN f) \cup {k} |-> IF x \in DOMAIN f THEN f[x] ELSE v]

Put(f, k, v) == [x \in (DOMAIN f) \cup {k} |-> IF x = k THEN v ELSE f[x]]

-----------------------------------------------------------------------------
(* Initial filesystems *)

M1 == (2022 - EPOCH_YEAR) * 12 + 10     \* 2022-11
M2 == (2021 - EPOCH_YEAR) * 12 + 6      \* 2021-07
MBad == (MAXYEAR + 1 - EPOCH_YEAR) * 12 \* a timestamp in year 10000

\* the source directories tried: beside organized/, organized/ itself, and
\* the filesystem root (whose parent is itself)
Sources == { <<PARENT, IMAGES>>, <<PARENT, ORGANIZED>>, << >> }

Entry(path, mtime, kind) == [path |-> path, mtime |-> mtime, kind |-> kind]

Candidates(s) ==
    LET t == join(dirname(s), ORGANIZED)
        sub == join(s, SUB)
        b1 == join(t, MtimeBucket(M1))
    IN  { Entry(join(s, NamePlain), M1, "regular"),
          Entry(join(s, NamePlain), MBad, "regular"),
          Entry(join(sub, NamePlain), M1, "regular"),
          Entry(join(sub, NamePlain), M2, "regular"),
          Entry(join(sub, NamePlain), M1, "fifo"),
          Entry(join(b1, NamePlain), M2, "regular"),
          Entry(join(s, NameBoth), M2, "regular"),
          Entry(join(s, NameImg), MBad, "regular"),
          Entry(join(s, NameText), M1, "regular") }

InitialTrees(s, exists) ==
    {E \in SUBSET Candidates(s) :
        /\ Cardinality(E) <= MaxFiles
        /\ \A e1, e2 \in E : e1.path = e2.path => e1 = e2
        /\ exists \/ \A e \in E : ~IsPrefix(s, e.path)}

TreeFiles(E) ==
    [p \in {e.path : e \in E} |->
        LET e == CHOOSE x \in E : x.path = p
        IN  [content |-> [origin |-> p, whole |-> TRUE], mtime |-> e.mtime, kind |-> e.kind]]

TreeDirs(E, s, exists) ==
    UNION {Prefixes(dirname(e.path)) : e \in E}
        \cup (IF exists THEN Prefixes(s) ELSE Prefixes(dirname(s)))

Init ==
    /\ source_dir \in Sources
    /\ \E exists \in BOOLEAN : \E E \in InitialTrees(source_dir, exists) :
          /\ files = TreeFiles(E)
          /\ dirs = TreeDirs(E, source_dir, exists)
    /\ orig = [files |-> files, dirs |-> dirs]
    /\ pc = "start"
    /\ result = "none"
    /\ stack = << >>
    /\ root = source_dir
    /\ pending = {}
    /\ processed_files = EmptyMap
    /\ year_month_counts = EmptyMap
    /\ total = -1
    /\ run = 1
    /\ faults = 0
    /\ exc = "none"
    /\ unlisted = {}
    /\ last = EmptyMap
    /\ log = {}
    /\ prev = [paths |-> {}, dirs |-> {}, buckets |-> {}]

-----------------------------------------------------------------------------
(* organize_images, lines 33-57: the source check and the two makedirs *)

\* the check made only after the target directory was created
CheckSourceMissingLate ==
    /\ pc = "start"
    /\ ~isdir(source_dir)
    /\ dirs' = Makedirs(dirs, target_dir)
    /\ pc' = "returned"
    /\ result' = "False"
    /\ UNCHANGED <<source_dir, files, stack, root, pending, processed_files,
                   year_month_counts, total, run, faults, exc, unlisted, orig, last, log, prev>>

CheckSourceMissing ==
    /\ pc = "start"
    /\ ~isdir(source_dir)
    /\ pc' = "returned"
    /\ result' = "False"
    /\ UNCHANGED <<source_dir, dirs, files, stack, root, pending, processed_files,
                   year_month_counts, total, run, faults, exc, unlisted, orig, last, log, prev>>

Setup ==
    /\ pc = "start"
    /\ isdir(source_dir)
    /\ ~MakedirsRaises(unknown_date_dir)
    /\ dirs' = Makedirs(Makedirs(dirs, target_dir), unknown_date_dir)
    /\ processed_files' = EmptyMap
    /\ stack' = << {source_dir} >>
    /\ pending' = {}
    /\ pc' = "walk"
    /\ UNCHANGED <<result, source_dir, files, root, year_month_counts, total, run,
                   faults, exc, unlisted, orig, last, log, prev>>

\* a makedirs of lines 41 or 57 fails: the exception leaves organize_images
SetupRaises ==
    /\ pc = "start"
    /\ isdir(source_dir)
    /\ \/ /\ MakedirsRaises(target_dir)
          /\ UNCHANGED <<dirs, faults>>
          /\ exc' = "L41"
       \/ /\ ~MakedirsRaises(target_dir)
          /\ MakedirsRaises(unknown_date_dir)
          /\ dirs' = Makedirs(dirs, target_dir)
          /\ faults' = faults
          /\ exc' = "L57"
       \/ /\ faults < MaxFaults
          /\ ~MakedirsRaises(unknown_date_dir)
          /\ faults' = faults + 1
          /\ \/ dirs' = dirs /\ exc' = "L41"
             \/ dirs' = Makedirs(dirs, target_dir) /\ exc' = "L57"
    /\ pc' = "raised"
    /\ UNCHANGED <<result, source_dir, files, stack, root, pending, processed_files,
                   year_month_counts, total, run, unlisted, orig, last, log, prev>>

-----------------------------------------------------------------------------
(* os.walk(source_dir), line 60: list the next directory, top-down *)

Children(d, paths) == {q \in paths : Len(q) = Len(d) + 1 /\ dirname(q) = d}

WalkNext ==
    /\ pc = "walk"
    /\ pending = {}
    /\ stack # << >>
    /\ \E d \in Head(stack) :
          LET others == Head(stack) \ {d}
              rest == IF others = {} THEN Tail(stack) ELSE <<others>> \o Tail(stack)
              subdirs == Children(d, dirs)
          IN  /\ root' = d
              /\ pending' = {basename(q) : q \in Children(d, DOMAIN files)}
              /\ stack' = IF subdirs = {} THEN rest ELSE <<subdirs>> \o rest
    /\ UNCHANGED <<pc, result, source_dir, dirs, files, processed_files,
                   year_month_counts, total, run, faults, exc, unlisted, orig, last, log, prev>>

\* os.walk without onerror: a directory that cannot be listed is skipped in
\* silence, with everything below it
WalkSkips ==
    /\ pc = "walk"
    /\ pending = {}
    /\ stack # << >>
    /\ faults < MaxFaults
    /\ faults' = faults + 1
    /\ \E d \in Head(stack) :
          LET others == Head(stack) \ {d}
          IN  /\ root' = d
              /\ unlisted' = unlisted \cup {d}
              /\ stack' = IF others = {} THEN Tail(stack) ELSE <<others>> \o Tail(stack)
    /\ UNCHANGED <<pc, result, source_dir, dirs, files, pending, processed_files,
                   year_month_counts, total, run, exc, orig, last, log, prev>>

-----------------------------------------------------------------------------
(* The body of the loop over the files of root, lines 61-118 *)

file_path(filename) == join(root, filename)

\* Every name the walk can meet is the name of an initial file; the tests on
\* a name are evaluated once per name.
Names == {NameBoth, NameImg, NamePlain, NameText}
IsImageName == [n \in Names |-> IsImage(n)]
FirstPatternOf == [n \in Names |-> FirstPattern(n)]

Eligible(filename) == isfile(file_path(filename)) /\ IsImageName[filename]

\* history: the content of the file of this name being copied now
Remember(h, filename) ==
    [n \in (DOMAIN h) \cup {filename} |->
        IF n = filename THEN files[file_path(filename)].content ELSE h[n]]

\* one entry of the history of copies
Event(filename, bucket, cause) ==
    [src |-> file_path(filename), name |-> filename, bucket |-> bucket,
     cause |-> cause, mtime |-> files[file_path(filename)].mtime]

\* lines 64-66: not a regular file
SkipNotFile ==
    /\ pc = "walk"
    /\ \E filename \in pending :
          /\ ~isfile(file_path(filename))
          /\ pending' = pending \ {filename}
    /\ UNCHANGED <<pc, result, source_dir, dirs, files, stack, root, processed_files,
                   year_month_counts, total, run, faults, exc, unlisted, orig, last, log, prev>>

\* lines 68-71: not an image extension
SkipNotImage ==
    /\ pc = "walk"
    /\ \E filename \in pending :
          /\ isfile(file_path(filename))
          /\ ~IsImageName[filename]
          /\ pending' = pending \ {filename}
    /\ UNCHANGED <<pc, result, source_dir, dirs, files, stack, root, processed_files,
                   year_month_counts, total, run, faults, exc, unlisted, orig, last, log, prev>>

CopySucceeds(year_month_dir, src, dst) ==
    ~MakedirsRaises(year_month_dir) /\ ~SameFile(src, dst)

\* The ways makedirs(year_month_dir) at line mk followed by copy2(src, dst) at
\* line cp can fail: the line that raises, and the filesystem and the fault
\* count the failure leaves.
CopyFailures(mk, cp, year_month_dir, src, dst) ==
    (IF MakedirsRaises(year_month_dir)
     THEN {[site |-> mk, dirs |-> dirs, files |-> files, faults |-> faults]}
     ELSE IF SameFile(src, dst)
     THEN {[site |-> cp, dirs |-> Makedirs(dirs, year_month_dir), files |-> files,
            faults |-> faults]}
     ELSE {})
    \cup
    (IF faults < MaxFaults /\ ~MakedirsRaises(year_month_dir)
     THEN {[site |-> mk, dirs |-> dirs, files |-> files, faults |-> faults + 1]}
          \cup
          (IF SameFile(src, dst) THEN {}
           ELSE {[site |-> cp, dirs |-> Makedirs(dirs, year_month_dir),
                  files |-> fs, faults |-> faults + 1] :
                    fs \in {files, Truncated(files, src, dst)}})
     ELSE {})

\* The first exception processing filename can run into before line 113
Failures(filename) ==
    LET k == FirstPatternOf[filename]
        mtime == files[file_path(filename)].mtime
    IN  IF k # 0
        THEN LET year_month_dir == join(target_dir, PatternBucket(k, filename))
             IN  CopyFailures("L83", "L87", year_month_dir, file_path(filename),
                              join(year_month_dir, filename))
        ELSE IF FromTimestampRaises(mtime)
        THEN {[site |-> "L99", dirs |-> dirs, files |-> files, faults |-> faults]}
        ELSE LET year_month_dir == join(target_dir, MtimeBucket(mtime))
             IN  CopyFailures("L105", "L109", year_month_dir, file_path(filename),
                              join(year_month_dir, filename))

\* a try around the reading of the modification time only
InTryMtimeOnly(site) == site = "L99"

\* a try around the pattern branch as well
InTryEverywhere(site) == site \in {"L83", "L87", "L99", "L105", "L109"}

\* the lines inside the try of lines 96-112
InTry(site) == site \in {"L99", "L105", "L109"}

\* lines 76-92: a date pattern matches and the copy succeeds
CopyByPattern ==
    /\ pc = "walk"
    /\ \E filename \in pending :
          LET k == FirstPatternOf[filename]
              bucket == PatternBucket(k, filename)
              year_month_dir == join(target_dir, bucket)
              dest_path == join(year_month_dir, filename)
          IN  /\ Eligible(filename)
              /\ k # 0
              /\ CopySucceeds(year_month_dir, file_path(filename), dest_path)
              /\ dirs' = Makedirs(dirs, year_month_dir)
              /\ files' = Copied(files, file_path(filename), dest_path)
              /\ processed_files' = Put(processed_files, filename, bucket)
              /\ log' = log \cup {Event(filename, bucket, "none")}
              /\ last' = Remember(last, filename)
              /\ pending' = pending \ {filename}
    /\ UNCHANGED <<pc, result, source_dir, stack, root, year_month_counts, total, run,
                   faults, exc, unlisted, orig, prev>>

\* lines 95-112: no pattern matches, the modification time gives the bucket
CopyByMtime ==
    /\ pc = "walk"
    /\ \E filename \in pending :
          LET mtime == files[file_path(filename)].mtime
              bucket == MtimeBucket(mtime)
              year_month_dir == join(target_dir, bucket)
              dest_path == join(year_month_dir, filename)
          IN  /\ Eligible(filename)
              /\ FirstPatternOf[filename] = 0
              /\ ~FromTimestampRaises(mtime)
              /\ CopySucceeds(year_month_dir, file_path(filename), dest_path)
              /\ dirs' = Makedirs(dirs, year_month_dir)
              /\ files' = Copied(files, file_path(filename), dest_path)
              /\ processed_files' = Put(processed_files, filename, bucket)
              /\ log' = log \cup {Event(filename, bucket, "none")}
              /\ last' = Remember(last, filename)
              /\ pending' = pending \ {filename}
    /\ UNCHANGED <<pc, result, source_dir, stack, root, year_month_counts, total, run,
                   faults, exc, unlisted, orig, prev>>

\* an exception raised outside the try leaves organize_images
Propagates ==
    /\ pc = "walk"
    /\ \E filename \in pending :
          /\ Eligible(filename)
          /\ \E f \in Failures(filename) :
                /\ ~InTry(f.site)
                /\ dirs' = f.dirs
                /\ files' = f.files
                /\ faults' = f.faults
                /\ exc' = f.site
    /\ pc' = "raised"
    /\ UNCHANGED <<result, source_dir, stack, root, pending, processed_files,
                   year_month_counts, total, run, unlisted, orig, last, log, prev>>

\* lines 113-118: an exception raised inside the try is caught and the
\* handler copies the file to unknown_date
CopyUnknown ==
    /\ pc = "walk"
    /\ \E filename \in pending :
          LET dest_path == join(unknown_date_dir, filename)
          IN  /\ Eligible(filename)
              /\ ~SameFile(file_path(filename), dest_path)
              /\ \E f \in Failures(filename) :
                    /\ InTry(f.site)
                    /\ dirs' = f.dirs
                    /\ files' = Copied(f.files, file_path(filename), dest_path)
                    /\ faults' = f.faults
                    /\ log' = log \cup {Event(filename, UNKNOWN_DATE, f.site)}
              /\ processed_files' = Put(processed_files, filename, UNKNOWN_DATE)
              /\ last' = Remember(last, filename)
              /\ pending' = pending \ {filename}
    /\ UNCHANGED <<pc, result, source_dir, stack, root, year_month_counts, total, run,
                   exc, unlisted, orig, prev>>

\* line 116: the copy2 of the handler fails, nothing catches it
UnknownRaises ==
    /\ pc = "walk"
    /\ \E filename \in pending :
          LET dest_path == join(unknown_date_dir, filename)
          IN  /\ Eligible(filename)
              /\ \E f \in Failures(filename) :
                    /\ InTry(f.site)
                    /\ dirs' = f.dirs
                    /\ \/ /\ SameFile(file_path(filename), dest_path)
                          /\ files' = f.files
                          /\ faults' = f.faults
                       \/ /\ ~SameFile(file_path(filename), dest_path)
                          /\ f.faults < MaxFaults
                          /\ faults' = f.faults + 1
                          /\ files' \in {f.files,
                                         Truncated(f.files, file_path(filename), dest_path)}
    /\ pc' = "raised"
    /\ exc' = "L116"
    /\ UNCHANGED <<result, source_dir, stack, root, pending, processed_files,
                   year_month_counts, total, run, unlisted, orig, last, log, prev>>

-----------------------------------------------------------------------------
(* lines 120-132: the summary, return True *)

Range(f) == {f[x] : x \in DOMAIN f}

CountByBucket(pf) ==
    [b \in Range(pf) |-> Cardinality({filename \in DOMAIN pf : pf[filename] = b})]

Summarize ==
    /\ pc = "walk"
    /\ pending = {}
    /\ stack = << >>
    /\ year_month_counts' = CountByBucket(processed_files)
    /\ total' = Cardinality(DOMAIN processed_files)
    /\ pc' = "returned"
    /\ result' = "True"
    /\ UNCHANGED <<source_dir, dirs, files, stack, root, pending, processed_files,
                   run, faults, exc, unlisted, orig, last, log, prev>>

\* organize_images is called a second time on the same source_dir
Rerun ==
    /\ pc = "returned"
    /\ result = "True"
    /\ run = 1
    /\ run' = 2
    /\ prev' = [paths |-> DOMAIN files, dirs |-> dirs,
                buckets |-> {<<e.src, e.bucket>> : e \in log}]
    /\ orig' = [files |-> files, dirs |-> dirs]
    /\ log' = {}
    /\ last' = EmptyMap
    /\ unlisted' = {}
    /\ pc' = "start"
    /\ result' = "none"
    /\ processed_files' = EmptyMap
    /\ year_month_counts' = EmptyMap
    /\ total' = -1
    /\ UNCHANGED <<source_dir, dirs, files, stack, root, pending, faults, exc>>

Next ==
    \/ CheckSourceMissing
    \/ Setup
    \/ SetupRaises
    \/ WalkNext
    \/ WalkSkips
    \/ SkipNotFile
    \/ SkipNotImage
    \/ CopyByPattern
    \/ CopyByMtime
    \/ Propagates
    \/ CopyUnknown
    \/ UnknownRaises
    \/ Summarize
    \/ Rerun

Spec == Init /\ [][Next]_vars


-----------------------------------------------------------------------------
(* Properties *)

ReturnedTrue == pc = "returned" /\ result = "True"

UnderSource(p) == IsPrefix(source_dir, p)
UnderTarget(p) == IsPrefix(target_dir, p)
Dest(bucket, name) == join(join(target_dir, bucket), name)

\* the name ends, whatever the case of its letters, with an image extension
HasImageExtension(name) ==
    \E k \in 1..Len(image_extensions) :
        LET ext == image_extensions[k]
        IN  /\ Len(name) >= Len(ext)
            /\ \A i \in 1..Len(ext) : LowerChar(name[Len(name) - Len(ext) + i]) = ext[i]

\* the tests on a name, evaluated once per name
HasImageExtensionOf == [n \in Names |-> HasImageExtension(n)]

\* the eligible files under source_dir when the run started, in the
\* directories the walk could list
EligibleOriginals ==
    {p \in DOMAIN orig.files :
        /\ UnderSource(p)
        /\ \A d \in unlisted : ~IsPrefix(d, p)
        /\ orig.files[p].kind = "regular"
        /\ HasImageExtensionOf[basename(p)]}

LeadingDate(name) == MatchAt(date_patterns[1], name, 1)
ImgStarts(name) == {i \in 1..Len(name) : MatchAt(date_patterns[2], name, i)}
LeadingDateOf == [n \in Names |-> LeadingDate(n)]
ImgStartsOf == [n \in Names |-> ImgStarts(n)]
NoDateInName(name) == ~LeadingDateOf[name] /\ ImgStartsOf[name] = {}
DateAt(name, d) == SubSeq(name, d, d + 3) \o <<"-">> \o SubSeq(name, d + 4, d + 5)
LeftmostImg(name) == CHOOSE i \in ImgStartsOf[name] : \A j \in ImgStartsOf[name] : i <= j

\* the bucket the priority order gives: leading date, IMG- date, modification time
PriorityBucket(name, mtime, mtimeFailed) ==
    IF LeadingDateOf[name] THEN DateAt(name, 1)
    ELSE IF ImgStartsOf[name] # {} THEN DateAt(name, LeftmostImg(name) + 4)
    ELSE IF mtimeFailed THEN UNKNOWN_DATE
    ELSE MtimeBucket(mtime)

\* C1: every file that was under source_dir when the run started is still
\* there, unchanged, in every state of the run.
OriginalsIntact ==
    \A p \in DOMAIN orig.files :
        UnderSource(p) => p \in DOMAIN files /\ files[p] = orig.files[p]

\* C2: a call on a source_dir that is no directory returns False and leaves
\* directories and files as they were; a call on a directory that returns,
\* returns True.
SourceCheck ==
    pc = "returned" =>
        IF source_dir \in orig.dirs
        THEN result = "True"
        ELSE result = "False" /\ dirs = orig.dirs /\ files = orig.files /\ log = {}

SourceCheckWitness ==
    /\ pc = "returned"
    /\ result = "False"
    /\ source_dir \notin dirs
    /\ DOMAIN files # {}

\* C3 as claimed: after a run that returned True every eligible original is
\* at target_dir/<bucket>/<name> for the bucket of the priority order, was
\* copied to no other bucket, and unknown_date is used only when the
\* modification time could not be read or formatted.
BucketByPriorityMtimeOnly ==
    ReturnedTrue =>
        \A p \in EligibleOriginals :
            LET name == basename(p)
                mtime == orig.files[p].mtime
                b == PriorityBucket(name, mtime, FromTimestampRaises(mtime))
            IN  /\ Dest(b, name) \in DOMAIN files
                /\ \A e \in log : e.src = p => e.bucket = b

\* C3 as amended: every copy goes to the bucket of the priority order, taken
\* with the modification time the file has when it is processed, or to
\* unknown_date, and to unknown_date exactly when no pattern matched and an
\* error was raised in the modification-time branch; after a run that
\* returned True every eligible original was processed and every file
\* processed is at target_dir/<its bucket>/<its name>.
BucketByPriority ==
    /\ \A e \in log :
          /\ e.bucket = PriorityBucket(e.name, e.mtime, e.cause # "none")
          /\ e.cause # "none" => NoDateInName(e.name)
          /\ FromTimestampRaises(e.mtime) /\ NoDateInName(e.name) => e.cause # "none"
    /\ ReturnedTrue =>
          /\ \A p \in EligibleOriginals : \E e \in log : e.src = p
          /\ \A e \in log : Dest(e.bucket, e.name) \in DOMAIN files

BucketByPriorityWitness ==
    /\ ReturnedTrue
    /\ \E e \in log : e.name = NameBoth /\ e.bucket = <<"2","0","2","4","-","0","1">>
    /\ \E e \in log : e.name = NamePlain /\ e.bucket = UNKNOWN_DATE /\ e.cause = "L109"

\* C4 as claimed: a file whose name contains an IMG-YYYYMMDD- segment is
\* copied into the year-month of an IMG- segment of its name.
ImgDateAlways ==
    \A e \in log :
        ImgStartsOf[e.name] # {} =>
            \E i \in ImgStartsOf[e.name] : e.bucket = DateAt(e.name, i + 4)

\* C4 as amended: a file whose name contains an IMG-YYYYMMDD- segment and
\* does not begin with YYYYMMDD_ is copied into the year-month of the
\* leftmost IMG- segment; one that begins with YYYYMMDD_ is copied into the
\* year-month of that leading date.
ImgDateUnlessLeading ==
    \A e \in log :
        ImgStartsOf[e.name] # {} =>
            e.bucket = IF LeadingDateOf[e.name] THEN DateAt(e.name, 1)
                       ELSE DateAt(e.name, LeftmostImg(e.name) + 4)

ImgDateUnlessLeadingWitness ==
    /\ \E e \in log : e.name = NameImg /\ e.bucket = <<"2","0","2","3","-","0","5">>
    /\ Cardinality(ImgStarts(NameImg)) = 2

\* C5: only files with an image extension are written under target_dir or
\* entered in processed_files, and after a run that returned True every
\* regular file with an image extension, in any letter case, was processed.
OnlyImagesCopied ==
    /\ \A p \in DOMAIN files :
          (UnderTarget(p) /\ (p \notin DOMAIN orig.files \/ files[p] # orig.files[p]))
              => HasImageExtensionOf[basename(p)]
    /\ \A n \in DOMAIN processed_files : HasImageExtensionOf[n]
    /\ \A e \in log : HasImageExtensionOf[e.name]
    /\ ReturnedTrue =>
          \A p \in EligibleOriginals :
              /\ basename(p) \in DOMAIN processed_files
              /\ \E e \in log : e.src = p

OnlyImagesCopiedWitness ==
    /\ ReturnedTrue
    /\ \E p \in DOMAIN orig.files : UnderSource(p) /\ basename(p) = NameText
    /\ \E e \in log : e.name = NamePlain /\ ~endswith(e.name, lower(e.name))

\* C6: a second run on the directory the first run left, without any I/O
\* failure in either run, puts every file in the bucket the first run put it
\* in and leaves the same files and directories under target_dir.
Idempotent ==
    (ReturnedTrue /\ run = 2 /\ faults = 0) =>
        /\ {p \in DOMAIN files : UnderTarget(p)} = {p \in prev.paths : UnderTarget(p)}
        /\ dirs = prev.dirs
        /\ \A e \in log : \A b \in prev.buckets : b[1] = e.src => b[2] = e.bucket

\* C7 as claimed: once the source check has passed, no error raised while a
\* file is processed leaves organize_images.
NoPerFileAbort ==
    pc = "raised" => exc \in {"L41", "L57"}

\* C7 as amended: an error raised inside the try of the modification-time
\* branch (reading the time, creating the bucket directory, copying) never
\* leaves organize_images; the errors that do are those of the pattern branch
\* (lines 83, 87), raised for a file whose name holds a date, and of the copy
\* of the handler (line 116).
AbortOnlyOutsideTry ==
    /\ pc = "raised" <=> exc # "none"
    /\ exc \in {"none", "L41", "L57", "L83", "L87", "L116"}
    /\ exc \in {"L83", "L87"} => \E filename \in pending : ~NoDateInName(filename)
    /\ exc = "L116" => \E filename \in pending : NoDateInName(filename)

AbortOnlyOutsideTryWitness ==
    /\ ReturnedTrue
    /\ Cardinality(log) >= 2
    /\ \E e \in log : e.cause \in {"L105", "L109"}

\* C8 as claimed: only a failure to read or format the modification time
\* leads to unknown_date; a failed makedirs or copy2 never does.
UnknownOnlyOnMtimeError ==
    \A e \in log : e.bucket = UNKNOWN_DATE => e.cause = "L99"

\* C8 as amended: a file is copied into unknown_date only when its name holds
\* no date and the try of the modification-time branch raised, be it the
\* reading of the time (line 99), makedirs (line 105) or copy2 (line 109); a
\* failure of makedirs or copy2 for a file whose name holds a date never
\* leads to unknown_date.
UnknownOnlyFromTry ==
    \A e \in log :
        /\ e.bucket = UNKNOWN_DATE =>
              /\ NoDateInName(e.name)
              /\ e.cause \in {"L99", "L105", "L109"}
              /\ e.cause = "L99" <=> FromTimestampRaises(e.mtime)
        /\ ~NoDateInName(e.name) => e.cause = "none" /\ e.bucket # UNKNOWN_DATE

UnknownOnlyFromTryWitness ==
    \E e \in log :
        /\ e.bucket = UNKNOWN_DATE
        /\ e.cause = "L109"
        /\ ~FromTimestampRaises(e.mtime)
        /\ Dest(UNKNOWN_DATE, e.name) \in DOMAIN files

\* the names copied from more than one place in this run
Collided == {n \in DOMAIN processed_files : Cardinality({e \in log : e.name = n}) >= 2}
BucketsOf(n) == {e.bucket : e \in {x \in log : x.name = n}}

\* C9 as claimed: after the run a name copied from several directories is the
\* name of exactly one file under target_dir, in the bucket the map records,
\* with the content of the file processed last.
CollisionOneFile ==
    ReturnedTrue =>
        \A n \in Collided :
            /\ {p \in DOMAIN files : UnderTarget(p) /\ basename(p) = n}
                  = {Dest(processed_files[n], n)}
            /\ files[Dest(processed_files[n], n)].content = last[n]

\* C9 as amended: a name copied from several directories has one entry in
\* the map, the bucket of the file processed last, and the file of that name
\* in that bucket has the content of the file processed last; every bucket
\* one of these files was copied into holds a file of that name, so files
\* of one name given different buckets leave one destination per bucket.
CollisionLastWins ==
    ReturnedTrue =>
        \A n \in Collided :
            /\ processed_files[n] \in BucketsOf(n)
            /\ Dest(processed_files[n], n) \in DOMAIN files
            /\ files[Dest(processed_files[n], n)].content = last[n]
            /\ \A b \in BucketsOf(n) : Dest(b, n) \in DOMAIN files

CollisionLastWinsWitness ==
    /\ ReturnedTrue
    /\ \E n \in Collided : Cardinality(BucketsOf(n)) = 2
    /\ ~UnderSource(target_dir)

RECURSIVE SumOver(_, _)
SumOver(f, S) ==
    IF S = {} THEN 0
    ELSE LET x == CHOOSE y \in S : TRUE IN f[x] + SumOver(f, S \ {x})

\* C10: in the summary of a run that returned True the total is the number
\* of files the run copied, the count of a bucket is the number of files the
\* run copied into it, and the counts add up to the total.
SummaryCountsCopies ==
    ReturnedTrue =>
        /\ total = Cardinality(log)
        /\ \A b \in DOMAIN year_month_counts :
              year_month_counts[b] = Cardinality({e \in log : e.bucket = b})
        /\ SumOver(year_month_counts, DOMAIN year_month_counts) = total

====
